---- MODULE Spec2Model ----
(***************************************************************************)
(* Model of wren-ai-service/src/utils.py: the logger factory               *)
(* (setup_custom_logger), the timing decorators (timer, async_timer), the  *)
(* tracing-metadata decorator (trace_metadata) and the dedup helper        *)
(* (remove_sql_summary_duplicates).                                        *)
(*                                                                         *)
(* Python values that may be None, a string or a mapping are tagged        *)
(* records: Str(s), Dict(d), NoneVal.  A Python dict is a TLA+ function    *)
(* from its keys to tagged values.  A Python string that the code          *)
(* transforms character by character (level_str) is a sequence of          *)
(* one-character strings.  Python's args[k] is args[k+1] here.             *)
(***************************************************************************)
EXTENDS Integers, Sequences, FiniteSets, TLC

VARIABLES
    loggers,        \* logging's registry: logger name -> [level, handlers]
    setupCalls,     \* the setup_custom_logger calls made so far, with their outcome
    dicts,          \* the argument of remove_sql_summary_duplicates
    unique_dicts,   \* what the call on dicts returned
    unique_again,   \* what the call on unique_dicts returned
    dpc,            \* "input" -> "once" -> "twice"
    enable_timer,   \* settings.enable_timer
    calls           \* slot -> the call made through a decorator, or Idle

vars == <<loggers, setupCalls, dicts, unique_dicts, unique_again, dpc,
          enable_timer, calls>>

loggerVars == <<loggers, setupCalls>>

dedupVars == <<dicts, unique_dicts, unique_again, dpc>>

decoVars == <<enable_timer, calls>>

\* ------------------------------------------------------------------ bounds

MaxSetupCalls == 3

MaxLen == 3

MaxSlots == 1

\* ------------------------------------------------------------ Python values

NoneVal == [tag |-> "none"]

Str(s) == [tag |-> "str", s |-> s]

Dict(d) == [tag |-> "dict", d |-> d]

EmptyMap == <<>>

\* d.get(key, default)
Get(d, key, default) == IF key \in DOMAIN d THEN d[key] ELSE default

\* {**a, **b}: the entries of b override those of a
Merge(a, b) ==
    [k \in DOMAIN a \cup DOMAIN b |-> IF k \in DOMAIN b THEN b[k] ELSE a[k]]

\* ------------------------------------------------------------ logger factory

\* str.upper() on the letters the inputs use; any other character is kept
UpperChar(c) ==
    CASE c = "a" -> "A" [] c = "b" -> "B" [] c = "c" -> "C" [] c = "d" -> "D"
      [] c = "e" -> "E" [] c = "f" -> "F" [] c = "g" -> "G" [] c = "h" -> "H"
      [] c = "i" -> "I" [] c = "j" -> "J" [] c = "k" -> "K" [] c = "l" -> "L"
      [] c = "m" -> "M" [] c = "n" -> "N" [] c = "o" -> "O" [] c = "p" -> "P"
      [] c = "q" -> "Q" [] c = "r" -> "R" [] c = "s" -> "S" [] c = "t" -> "T"
      [] c = "u" -> "U" [] c = "v" -> "V" [] c = "w" -> "W" [] c = "x" -> "X"
      [] c = "y" -> "Y" [] c = "z" -> "Z" [] OTHER -> c

Upper(s) == [i \in DOMAIN s |-> UpperChar(s[i])]

\* logging._nameToLevel of the standard library, as the code consults it
nameToLevel ==
    <<"C","R","I","T","I","C","A","L">> :> 50 @@
    <<"F","A","T","A","L">> :> 50 @@
    <<"E","R","R","O","R">> :> 40 @@
    <<"W","A","R","N">> :> 30 @@
    <<"W","A","R","N","I","N","G">> :> 30 @@
    <<"I","N","F","O">> :> 20 @@
    <<"D","E","B","U","G">> :> 10 @@
    <<"N","O","T","S","E","T">> :> 0

\* the level of a logger that logging.getLogger has just created
NOTSET == 0

Invalid == -1

\* lines 38-43 without the upper-casing of line 38
ParseLevelNoUpper(level_str) ==
    IF level_str \notin DOMAIN nameToLevel
    THEN Invalid
    ELSE nameToLevel[level_str]

\* lines 38-43: the level the name stands for, Invalid where line 41 raises
ParseLevel(level_str) ==
    LET upper == Upper(level_str)
    IN  IF upper \notin DOMAIN nameToLevel
        THEN Invalid
        ELSE nameToLevel[upper]

\* logging.getLogger(name): the registered logger, created on first use
getLogger(registry, name) ==
    IF name \in DOMAIN registry
    THEN registry
    ELSE registry @@ (name :> [level |-> NOTSET, handlers |-> <<>>])

\* the number of handler objects made so far; the next one is a new object
HandlersMade(registry) ==
    Cardinality(UNION {{registry[n].handlers[i] : i \in DOMAIN registry[n].handlers}
                       : n \in DOMAIN registry})

\* logger.addHandler(handler) where the handler is not attached to the logger yet
addHandler(lg, handler) ==
    [lg EXCEPT !.handlers =
        IF \E i \in DOMAIN @ : @[i] = handler THEN @ ELSE Append(@, handler)]

\* lines 45-50 with the handler attached only to a logger that has none
AttachOnce(registry, name, level) ==
    LET reg == getLogger(registry, name)
        handler == HandlersMade(registry) + 1
    IN  [reg EXCEPT ![name] =
            IF reg[name].handlers = <<>>
            THEN addHandler([@ EXCEPT !.level = level], handler)
            ELSE [@ EXCEPT !.level = level]]

\* lines 45-50: a new StreamHandler, the logger looked up, levelled, handler added
Attach(registry, name, level) ==
    LET reg == getLogger(registry, name)
        handler == HandlersMade(registry) + 1
    IN  [reg EXCEPT ![name] = addHandler([@ EXCEPT !.level = level], handler)]

LoggerNames == {"wren-ai-service", "other"}

LevelStrs ==
    { <<"D","E","B","U","G">>, <<"i","n","f","o">>,
      <<"W","a","r","n","i","n","g">>, <<"e","r","r","o","r">>,
      <<"C","R","I","T","I","C","A","L">>,
      <<"w","a","r","n">>, <<"F","A","T","A","L">>, <<"N","o","t","S","e","t">>,
      <<"v","e","r","b","o","s","e">>, <<"I","N","F","O"," ">>, <<>> }

setup_custom_logger(name, level_str) ==
    /\ Len(setupCalls) < MaxSetupCalls
    /\ LET level == ParseLevel(level_str)
       IN  IF level = Invalid
           THEN /\ setupCalls' = Append(setupCalls,
                     [name |-> name, level_str |-> level_str,
                      outcome |-> "ValueError", logger |-> "none"])
                /\ UNCHANGED loggers
           ELSE /\ loggers' = Attach(loggers, name, level)
                /\ setupCalls' = Append(setupCalls,
                     [name |-> name, level_str |-> level_str,
                      outcome |-> "returned", logger |-> name])
    /\ UNCHANGED <<dedupVars, decoVars>>

\* ------------------------------------------------------------- dedup helper

RECURSIVE DedupLoop(_, _, _, _)
\* lines 211-218: the for loop from its i-th iteration on
DedupLoop(ds, i, seen, unique) ==
    IF i > Len(ds)
    THEN unique
    ELSE LET d == ds[i]
             identifier == <<d.sql, d.summary>>
         IN  IF identifier \notin seen
             THEN DedupLoop(ds, i + 1, seen \cup {identifier}, Append(unique, d))
             ELSE DedupLoop(ds, i + 1, seen, unique)

RECURSIVE DedupLoopBySql(_, _, _, _)
\* the loop with an identifier made of sql alone
DedupLoopBySql(ds, i, seen, unique) ==
    IF i > Len(ds)
    THEN unique
    ELSE LET d == ds[i]
             identifier == <<d.sql>>
         IN  IF identifier \notin seen
             THEN DedupLoopBySql(ds, i + 1, seen \cup {identifier}, Append(unique, d))
             ELSE DedupLoopBySql(ds, i + 1, seen, unique)

\* the helper with the sql-only identifier
remove_duplicates_by_sql(ds) == DedupLoopBySql(ds, 1, {}, <<>>)

\* the helper with a loop that stops one record early
remove_duplicates_drop_last(ds) ==
    DedupLoop(SubSeq(ds, 1, Len(ds) - 1), 1, {}, <<>>)

\* lines 209-219
remove_sql_summary_duplicates(ds) == DedupLoop(ds, 1, {}, <<>>)

Sqls == {"A", "B"}

Summaries == {"x", "y"}

\* a third field tells apart two records that carry the same pair
Records == [sql : Sqls, summary : Summaries, id : {"1", "2"}]

SeqsUpTo(S, n) == UNION {[1..k -> S] : k \in 0..n}

DedupCall ==
    /\ dpc = "input"
    /\ unique_dicts' = remove_sql_summary_duplicates(dicts)
    /\ dpc' = "once"
    /\ UNCHANGED <<dicts, unique_again, loggerVars, decoVars>>

DedupAgain ==
    /\ dpc = "once"
    /\ unique_again' = remove_sql_summary_duplicates(unique_dicts)
    /\ dpc' = "twice"
    /\ UNCHANGED <<dicts, unique_dicts, loggerVars, decoVars>>

\* ------------------------------------------------------------- decorators

Obj(attrs) == [tag |-> "obj", attrs |-> attrs]

\* hasattr(obj, attr)
hasattr(obj, attr) == attr \in DOMAIN obj.attrs

\* the wrapped callables: asyncio.iscoroutinefunction(func) is func.coroutine
SyncFunc == [name |-> "sync_fn", coroutine |-> FALSE]

AsyncFunc == [name |-> "async_fn", coroutine |-> TRUE]

Funcs == {SyncFunc, AsyncFunc}

\* the receiver of a decorated method: an object with none of the four attributes
SelfObj == Obj(EmptyMap)

ReqP1 == Obj([project_id |-> Str("p1")])

ReqFull == Obj([project_id |-> Str("p2"), thread_id |-> Str("t1"),
                mdl_hash |-> Str("h1"), user_id |-> Str("u1")])

ArgLists ==
    { <<>>, <<ReqP1>>, <<SelfObj, ReqP1>>, <<SelfObj, ReqFull>>,
      <<ReqP1, ReqFull>> }

TimerArgLists == { <<>>, <<SelfObj, ReqP1>> }

NoKwargs == EmptyMap

KwFull ==
    [service_metadata |->
        Dict([pipes_metadata |-> Dict([k |-> Str("pipe"), stage |-> Str("s"),
                                       project_id |-> Str("pp")]),
              service_version |-> Str("1.0")])]

KwNoPipes == [service_metadata |-> Dict([service_version |-> Str("1.0")])]

KwargSets == {NoKwargs, KwFull, KwNoPipes}

TimerKwargSets == {KwFull}

ResMock == Str("Mock")

ResMeta == Dict([metadata |-> Dict([k |-> Str("v")])])

ResClash ==
    Dict([metadata |-> Dict([k |-> Str("v"), project_id |-> Str("px"),
                             mdl_hash |-> Str("hx")]),
          status |-> Str("ok")])

ResNoMeta == Dict([status |-> Str("ok")])

ResMetaNone == Dict([metadata |-> NoneVal])

Results == {ResMock, ResMeta, ResClash, ResNoMeta, ResMetaNone}

TimerResults == {ResMeta}

\* what the wrapped callable does once invoked: the caller's environment decides
Returns(v) == [kind |-> "return", value |-> v]

Raises == [kind |-> "raise", error |-> "Boom"]

Cancelled == [kind |-> "raise", error |-> "CancelledError"]

Pending == [kind |-> "pending"]

\* the flag looked up in the decorator body, when the callable is decorated
EnableTimerCaptured(atDecoration, atCall, atStart) == atDecoration

\* lines 66-68 and 92-94: the flag is looked up when the wrapper's body runs;
\* for async_timer that is the coroutine's first run, not the call creating it
EnableTimerSeen(atDecoration, atCall, atStart) == atStart

\* logging.INFO, the severity of logger.info (lines 74, 100)
INFO == 20

\* the level of the root logger, never configured by this module: WARNING
RootLevel == 30

\* lines 74-76 and 100-102: the lines logger.info writes through the module's
\* logger "wren-ai-service" (line 10): none unless its effective level admits
\* INFO, else one per attached handler (the root logger has no handler, and
\* logging's last-resort handler only writes from WARNING up)
InfoLines(registry) ==
    LET lg == registry["wren-ai-service"]
        effective == IF lg.level # NOTSET THEN lg.level ELSE RootLevel
    IN  IF INFO >= effective THEN Len(lg.handlers) ELSE 0

\* process without the assertion of line 87
process_unchecked(func) == TRUE

\* line 87: assert asyncio.iscoroutinefunction(func)
process_assert(func) == func.coroutine

\* a wrapper that falls off its end and returns None
ReturnedNone(c, result) ==
    [c EXCEPT !.pc = "done", !.outcome = [kind |-> "returned", value |-> NoneVal]]

\* lines 78, 80, 104, 106, 193: return result
Returned(c, result) ==
    [c EXCEPT !.pc = "done", !.outcome = [kind |-> "returned", value |-> result]]

\* a wrapper that logs the elapsed time in a finally clause
FailedLogged(c, error) ==
    [c EXCEPT !.pc = "done", !.outcome = [kind |-> "raised", error |-> error],
              !.events = Append(@, "log")]

\* an exception raised inside the wrapper leaves it at once: nothing catches it
Failed(c, error) ==
    [c EXCEPT !.pc = "done", !.outcome = [kind |-> "raised", error |-> error]]

\* a call of a wrapper whose body has not run yet; flagAtStart and timed are
\* set when the body starts
NewCall(deco, func, args, kwargs, atDecoration) ==
    [pc |-> "created", deco |-> deco, func |-> func, args |-> args,
     kwargs |-> kwargs, decoratedWith |-> atDecoration,
     flagAtCall |-> enable_timer, flagAtStart |-> enable_timer,
     timed |-> FALSE, invocations |-> <<>>, funcOutcome |-> Pending,
     events |-> <<>>, lines |-> 0, pushed |-> <<>>, outcome |-> Pending]

\* lines 66-68 and 92-94: the body starts and takes the branch the flag selects
Start(c) ==
    [c EXCEPT !.flagAtStart = enable_timer,
              !.timed = EnableTimerSeen(c.decoratedWith, c.flagAtCall, enable_timer)]

\* func(*args, **kwargs) is entered
Invoke(c) ==
    [c EXCEPT !.invocations = Append(@, [args |-> c.args, kwargs |-> c.kwargs]),
              !.events = Append(@, "invoke")]

\* lines 70-80 and 96-106 from the point where func has finished
AfterFunc(c, out) ==
    IF out.kind = "return"
    THEN IF c.timed
         THEN Returned([c EXCEPT !.funcOutcome = out,
                                 !.events = @ \o <<"return", "log">>,
                                 !.lines = InfoLines(loggers)], out.value)
         ELSE Returned([c EXCEPT !.funcOutcome = out,
                                 !.events = Append(@, "return")], out.value)
    ELSE Failed([c EXCEPT !.funcOutcome = out,
                          !.events = Append(@, "raise")], out.error)

Reusable(s) == calls[s].pc \in {"idle", "done"}

SetEnableTimer(b) ==
    /\ enable_timer # b
    /\ enable_timer' = b
    /\ UNCHANGED <<calls, loggerVars, dedupVars>>

\* lines 65-80: a synchronous call runs from entry to exit in one step
timer(s, func, args, kwargs, atDecoration, out) ==
    /\ Reusable(s)
    /\ LET c == Start(NewCall("timer", func, args, kwargs, atDecoration))
       IN  calls' = [calls EXCEPT ![s] = AfterFunc(Invoke(c), out)]
    /\ UNCHANGED <<enable_timer, loggerVars, dedupVars>>

\* lines 90-91: calling the async wrapper only creates its coroutine
async_timer_call(s, func, args, kwargs, atDecoration) ==
    /\ Reusable(s)
    /\ calls' = [calls EXCEPT ![s] =
          NewCall("async_timer", func, args, kwargs, atDecoration)]
    /\ UNCHANGED <<enable_timer, loggerVars, dedupVars>>

\* lines 92-96/106 and 86-88: the coroutine's first run, up to the await of func
async_timer_start(s) ==
    /\ calls[s].pc = "created"
    /\ calls[s].deco = "async_timer"
    /\ LET c == Start(calls[s])
       IN  IF process_assert(c.func)
           THEN calls' = [calls EXCEPT ![s] = [Invoke(c) EXCEPT !.pc = "awaiting"]]
           ELSE calls' = [calls EXCEPT ![s] = Failed(c, "AssertionError")]
    /\ UNCHANGED <<enable_timer, loggerVars, dedupVars>>

\* lines 88 and 96-106: the awaited func finishes, fails or is cancelled
async_timer_resume(s, out) ==
    /\ calls[s].pc = "awaiting"
    /\ calls[s].deco = "async_timer"
    /\ calls' = [calls EXCEPT ![s] = AfterFunc(calls[s], out)]
    /\ UNCHANGED <<enable_timer, loggerVars, dedupVars>>

IdentifyingAttrs == {"project_id", "thread_id", "mdl_hash", "user_id"}

\* lines 148-161, for an argument list that has an args[1]
extract(args) ==
    LET request == args[2]
    IN  [a \in {b \in IdentifyingAttrs : hasattr(request, b)} |-> request.attrs[a]]

DefaultServiceMetadata ==
    Dict([pipes_metadata |-> Dict(EmptyMap), service_version |-> Str("")])

\* the merge with pipes_metadata applied last
langfuse_metadata_pipes_last(pipes, addition, metadata) ==
    Merge(Merge(addition,
                [mdl_hash |-> Get(metadata, "mdl_hash", NoneVal),
                 project_id |-> Get(metadata, "project_id", NoneVal)]),
          pipes)

\* lines 180-185
langfuse_metadata(pipes, addition, metadata) ==
    Merge(Merge(pipes, addition),
          [mdl_hash |-> Get(metadata, "mdl_hash", NoneVal),
           project_id |-> Get(metadata, "project_id", NoneVal)])

\* lines 167-193: the wrapper after func has returned results
trace_after(c, results) ==
    LET additional_metadata ==
            IF results.tag = "dict"
            THEN Get(results.d, "metadata", Dict(EmptyMap))
            ELSE Dict(EmptyMap)
        service_metadata == Get(c.kwargs, "service_metadata", DefaultServiceMetadata)
        pipes == Get(service_metadata.d, "pipes_metadata", NoneVal)
    IN  IF additional_metadata.tag # "dict"
        THEN Failed(c, "TypeError")              \* line 170: update(None)
        ELSE IF Len(c.args) < 2
        THEN Failed(c, "IndexError")             \* line 149: args[1]
        ELSE IF pipes.tag # "dict"
        THEN Failed(c, "TypeError")              \* line 181: **None
        ELSE LET metadata == extract(c.args)
                 update ==
                    [user_id |-> Get(metadata, "user_id", NoneVal),
                     session_id |-> Get(metadata, "thread_id", NoneVal),
                     release |-> Get(service_metadata.d, "service_version", NoneVal),
                     metadata |-> langfuse_metadata(pipes.d, additional_metadata.d,
                                                    metadata)]
             IN  Returned([c EXCEPT !.events = Append(@, "update"),
                                    !.pushed = Append(@, update)], results)

\* lines 164-165: up to the await of func
trace_metadata_begin(s, func, args, kwargs) ==
    /\ Reusable(s)
    /\ func.coroutine
    /\ calls' = [calls EXCEPT ![s] =
          [Invoke(NewCall("trace_metadata", func, args, kwargs, FALSE))
              EXCEPT !.pc = "awaiting"]]
    /\ UNCHANGED <<enable_timer, loggerVars, dedupVars>>

\* lines 165-193: the awaited func finishes, fails or is cancelled
trace_metadata_resume(s, out) ==
    /\ calls[s].pc = "awaiting"
    /\ calls[s].deco = "trace_metadata"
    /\ LET c == [calls[s] EXCEPT !.funcOutcome = out]
       IN  IF out.kind = "return"
           THEN calls' = [calls EXCEPT ![s] =
                    trace_after([c EXCEPT !.events = Append(@, "return")], out.value)]
           ELSE calls' = [calls EXCEPT ![s] =
                    Failed([c EXCEPT !.events = Append(@, "raise")], out.error)]
    /\ UNCHANGED <<enable_timer, loggerVars, dedupVars>>

\* ---------------------------------------------------------- specifications

Idle == [pc |-> "idle"]

Slots == 1..MaxSlots

InitLogger ==
    \* line 10: the module registers its own logger when it is imported
    /\ loggers = getLogger(<<>>, "wren-ai-service")
    /\ setupCalls = <<>>

InitDedup ==
    /\ unique_dicts = <<>>
    /\ unique_again = <<>>
    /\ dpc = "input"

InitDeco ==
    /\ calls = [s \in Slots |-> Idle]

Init ==
    /\ InitLogger
    /\ InitDedup
    /\ InitDeco
    /\ dicts = <<>>
    /\ enable_timer = FALSE

NextLogger ==
    \E name \in LoggerNames, level_str \in LevelStrs :
        setup_custom_logger(name, level_str)

SpecLogger == Init /\ [][NextLogger]_vars

InitDedupInputs ==
    /\ InitLogger
    /\ InitDedup
    /\ InitDeco
    /\ dicts \in SeqsUpTo(Records, MaxLen)
    /\ enable_timer = FALSE

NextDedup == DedupCall \/ DedupAgain

SpecDedup == InitDedupInputs /\ [][NextDedup]_vars

SyncOutcomes == {Returns(v) : v \in TimerResults} \cup {Raises}

AsyncOutcomes == SyncOutcomes \cup {Cancelled}

TraceOutcomes == {Returns(v) : v \in Results} \cup {Raises, Cancelled}

NextDeco ==
    \/ \E b \in BOOLEAN : SetEnableTimer(b)
    \/ \E s \in Slots, args \in TimerArgLists, kwargs \in TimerKwargSets,
          atDecoration \in BOOLEAN, out \in SyncOutcomes :
          timer(s, SyncFunc, args, kwargs, atDecoration, out)
    \/ \E s \in Slots, func \in Funcs, args \in TimerArgLists,
          kwargs \in TimerKwargSets, atDecoration \in BOOLEAN :
          async_timer_call(s, func, args, kwargs, atDecoration)
    \/ \E s \in Slots : async_timer_start(s)
    \/ \E s \in Slots, out \in AsyncOutcomes : async_timer_resume(s, out)
    \/ \E s \in Slots, args \in ArgLists, kwargs \in KwargSets :
          trace_metadata_begin(s, AsyncFunc, args, kwargs)
    \/ \E s \in Slots, out \in TraceOutcomes : trace_metadata_resume(s, out)

SpecDeco == Init /\ [][NextDeco]_vars

\* the levels the module's own logger is set up with next to the timers
TimerLevelStrs ==
    { <<"i","n","f","o">>, <<"e","r","r","o","r">>, <<"N","o","t","S","e","t">> }

NextTimer ==
    \/ \E b \in BOOLEAN : SetEnableTimer(b)
    \/ \E level_str \in TimerLevelStrs :
          setup_custom_logger("wren-ai-service", level_str)
    \/ \E s \in Slots, atDecoration \in BOOLEAN, out \in SyncOutcomes :
          timer(s, SyncFunc, <<SelfObj, ReqP1>>, KwFull, atDecoration, out)
    \/ \E s \in Slots, func \in Funcs, atDecoration \in BOOLEAN :
          async_timer_call(s, func, <<SelfObj, ReqP1>>, KwFull, atDecoration)
    \/ \E s \in Slots : async_timer_start(s)
    \/ \E s \in Slots, out \in AsyncOutcomes : async_timer_resume(s, out)

SpecTimer == Init /\ [][NextTimer]_vars

Next == NextLogger \/ NextDedup \/ NextDeco

Spec == Init /\ [][Next]_vars

\* ------------------------------------------------------------------ claims

Last(q) == q[Len(q)]

\* the five severity names the specification lists
FiveLevels ==
    <<"D","E","B","U","G">> :> 10 @@ <<"I","N","F","O">> :> 20 @@
    <<"W","A","R","N","I","N","G">> :> 30 @@ <<"E","R","R","O","R">> :> 40 @@
    <<"C","R","I","T","I","C","A","L">> :> 50

\* the three further names the standard library's table holds
AliasLevels ==
    <<"W","A","R","N">> :> 30 @@ <<"F","A","T","A","L">> :> 50 @@
    <<"N","O","T","S","E","T">> :> 0

\* the step is a setup_custom_logger call that accepts exactly the names of
\* accepted: it returns and levels the logger for those, raises and leaves the
\* registry alone for every other string
SetupAccepts(accepted) ==
    Len(setupCalls') = Len(setupCalls) + 1 =>
        LET c == Last(setupCalls')
            upper == Upper(c.level_str)
        IN  IF upper \in DOMAIN accepted
            THEN /\ c.outcome = "returned"
                 /\ loggers'[c.name].level = accepted[upper]
            ELSE /\ c.outcome = "ValueError"
                 /\ loggers' = loggers

\* C1 as stated: setup_custom_logger succeeds exactly for the five names DEBUG,
\* INFO, WARNING, ERROR, CRITICAL in any case, sets that level, and fails for
\* every other string (WARN, FATAL, NOTSET included) with the registry unchanged
C1_OnlyFiveLevelsAccepted == [][SetupAccepts(FiveLevels)]_vars

\* C1 amended: setup_custom_logger succeeds exactly for the eight names of
\* logging._nameToLevel (the five plus WARN, FATAL, NOTSET) in any case and sets
\* the level the name stands for; every other string raises ValueError and
\* leaves every logger's level and handlers unchanged
C1_NameTableLevelsAccepted == [][SetupAccepts(FiveLevels @@ AliasLevels)]_vars

C1_Witness ==
    \E i, j \in DOMAIN setupCalls :
        /\ setupCalls[i].level_str = <<"w","a","r","n">>
        /\ setupCalls[i].outcome = "returned"
        /\ setupCalls[j].level_str = <<"v","e","r","b","o","s","e">>
        /\ setupCalls[j].outcome = "ValueError"
        /\ j = Len(setupCalls)
        /\ loggers[setupCalls[i].name].level = 30

HandlersOf(name) == IF name \in DOMAIN loggers THEN loggers[name].handlers ELSE <<>>

SuccessfulCalls(name) ==
    {i \in DOMAIN setupCalls :
        setupCalls[i].name = name /\ setupCalls[i].outcome = "returned"}

\* C7: after n successful setup_custom_logger calls for a name its logger
\* carries n distinct handlers, whatever was called for other names, and every
\* successful call returns the logger registered under its name
C7_HandlersAccumulate ==
    /\ \A name \in LoggerNames :
          /\ Len(HandlersOf(name)) = Cardinality(SuccessfulCalls(name))
          /\ \A i, j \in DOMAIN HandlersOf(name) :
                i # j => HandlersOf(name)[i] # HandlersOf(name)[j]
    /\ \A i \in DOMAIN setupCalls :
          setupCalls[i].outcome = "returned" =>
              /\ setupCalls[i].logger = setupCalls[i].name
              /\ setupCalls[i].name \in DOMAIN loggers

C7_Witness ==
    /\ Cardinality(SuccessfulCalls("other")) = 2
    /\ Len(HandlersOf("other")) = 2
    /\ Cardinality(SuccessfulCalls("wren-ai-service")) = 1
    /\ setupCalls[2].name = "wren-ai-service"

Key(d) == <<d.sql, d.summary>>

\* the positions of xs that hold the first record of their (sql, summary) pair
FirstPositions(xs) ==
    {i \in DOMAIN xs : \A j \in 1..(i - 1) : Key(xs[j]) # Key(xs[i])}

\* out lists the records at the first positions of xs, in the order of xs
IsFirstOccurrences(xs, out) ==
    LET firsts == FirstPositions(xs)
    IN  /\ Len(out) = Cardinality(firsts)
        /\ \A i \in firsts :
              out[Cardinality({j \in firsts : j <= i})] = xs[i]

\* C2: the result is the subsequence of the first record of every distinct
\* (sql, summary) pair of the input, in the input's order
C2_FirstOccurrencesKept ==
    dpc # "input" => IsFirstOccurrences(dicts, unique_dicts)

C2_Witness ==
    /\ dpc = "once"
    /\ Len(dicts) = 3
    /\ Key(dicts[1]) = Key(dicts[2])
    /\ dicts[1] # dicts[2]
    /\ Key(dicts[3]) # Key(dicts[1])
    /\ dicts[3].sql = dicts[1].sql
    /\ unique_dicts = <<dicts[1], dicts[3]>>

\* C6: applying the helper to its own output changes nothing
C6_Idempotent == dpc = "twice" => unique_again = unique_dicts

C6_Witness ==
    /\ dpc = "twice"
    /\ Len(dicts) = 3
    /\ Len(unique_dicts) = 2
    /\ unique_again = unique_dicts

Done(s) == calls[s].pc = "done"

Count(q, e) == Cardinality({i \in DOMAIN q : q[i] = e})

\* the attribute of an object as the tracing call is meant to see it
AttrOrNone(obj, a) == IF a \in DOMAIN obj.attrs THEN obj.attrs[a] ELSE NoneVal

ResultMetadata(v) ==
    IF v.tag = "dict" /\ "metadata" \in DOMAIN v.d THEN v.d.metadata.d ELSE EmptyMap

PipesMetadata(kwargs) ==
    IF "service_metadata" \in DOMAIN kwargs
    THEN kwargs.service_metadata.d.pipes_metadata.d
    ELSE EmptyMap

ServiceVersion(kwargs) ==
    IF "service_metadata" \in DOMAIN kwargs
    THEN kwargs.service_metadata.d.service_version
    ELSE Str("")

\* the one update pushed by call c is the three-way merge for the request at
\* position pos: request identifiers over result metadata over pipes_metadata
PushedForRequestAt(c, pos) ==
    /\ Len(c.pushed) = 1
    /\ LET request == c.args[pos]
           p == c.pushed[1]
           resMeta == ResultMetadata(c.outcome.value)
           pipes == PipesMetadata(c.kwargs)
       IN  /\ DOMAIN p.metadata =
                 DOMAIN pipes \cup DOMAIN resMeta \cup {"mdl_hash", "project_id"}
           /\ \A k \in DOMAIN p.metadata :
                 p.metadata[k] =
                    IF k \in {"mdl_hash", "project_id"} THEN AttrOrNone(request, k)
                    ELSE IF k \in DOMAIN resMeta THEN resMeta[k]
                    ELSE pipes[k]
           /\ p.user_id = AttrOrNone(request, "user_id")
           /\ p.session_id = AttrOrNone(request, "thread_id")
           /\ p.release = ServiceVersion(c.kwargs)

CompletedTrace(s) ==
    /\ Done(s)
    /\ calls[s].deco = "trace_metadata"
    /\ calls[s].outcome.kind = "returned"

\* C3 as stated: a completed trace_metadata call pushed the merge built from
\* the request found in the first positional argument
C3_RequestIsFirstArgument ==
    \A s \in Slots : CompletedTrace(s) => PushedForRequestAt(calls[s], 1)

\* C3 amended: a completed trace_metadata call has at least two positional
\* arguments and pushed the merge built from the request found in the second
\* one (Python's args[1]): request identifiers over result metadata over
\* pipes_metadata, user_id and thread_id as user_id and session_id,
\* service_version as release
C3_RequestIsSecondArgument ==
    \A s \in Slots :
        CompletedTrace(s) =>
            /\ Len(calls[s].args) >= 2
            /\ PushedForRequestAt(calls[s], 2)

C3_Witness ==
    \E s \in Slots :
        /\ CompletedTrace(s)
        /\ calls[s].args = <<SelfObj, ReqP1>>
        /\ calls[s].kwargs = KwFull
        /\ calls[s].outcome.value = ResClash
        /\ calls[s].pushed[1].metadata =
              [k |-> Str("v"), stage |-> Str("s"), project_id |-> Str("p1"),
               mdl_hash |-> NoneVal]

\* C4: a call through any of the three decorators that completes returns the
\* value the wrapped callable returned, and the wrapped callable was invoked
\* once, with the call's positional and keyword arguments
C4_DecoratorsTransparent ==
    \A s \in Slots :
        (Done(s) /\ calls[s].outcome.kind = "returned") =>
            /\ calls[s].funcOutcome.kind = "return"
            /\ calls[s].outcome.value = calls[s].funcOutcome.value
            /\ calls[s].invocations =
                  <<[args |-> calls[s].args, kwargs |-> calls[s].kwargs]>>

C4_Witness ==
    \E s \in Slots :
        /\ CompletedTrace(s)
        /\ calls[s].outcome.value = ResMeta
        /\ calls[s].args = <<SelfObj, ReqFull>>
        /\ Len(calls[s].invocations) = 1

IsTimerCall(s) ==
    calls[s].pc # "idle" /\ calls[s].deco \in {"timer", "async_timer"}

\* the lines one logger.info writes after the setup_custom_logger calls made so
\* far: as many as the successful calls for "wren-ai-service" when the latest
\* of them set DEBUG or INFO, none otherwise
ExpectedInfoLines ==
    LET ok == SuccessfulCalls("wren-ai-service")
    IN  IF ok = {}
        THEN 0
        ELSE LET latest == CHOOSE i \in ok : \A j \in ok : j <= i
                 level == Upper(setupCalls[latest].level_str)
             IN  IF level \in {<<"D","E","B","U","G">>, <<"I","N","F","O">>}
                 THEN Cardinality(ok)
                 ELSE 0

\* C5 as stated: a timer or async_timer call made while the flag is true, once
\* completed, has emitted exactly one elapsed-time log line, after func
\* returned; a call made while the flag is false emits none; a call that has
\* not finished has emitted none; the flag's value at decoration does not matter
C5_OneLinePerCallMadeWithFlag ==
    \A s \in Slots :
        IsTimerCall(s) =>
            LET c == calls[s]
            IN  /\ (c.pc = "done" /\ c.outcome.kind = "returned" /\ c.flagAtCall)
                      => /\ c.events = <<"invoke", "return", "log">>
                         /\ c.lines = 1
                /\ ~c.flagAtCall => (Count(c.events, "log") = 0 /\ c.lines = 0)
                /\ c.pc \in {"created", "awaiting"}
                      => (Count(c.events, "log") = 0 /\ c.lines = 0)

\* the step ends the timer or async_timer call of slot s
TimerCallEnds(s) ==
    /\ calls'[s] # calls[s]
    /\ calls'[s].pc = "done"
    /\ calls'[s].deco \in {"timer", "async_timer"}

\* C5 amended: the flag is read when the wrapper's body starts to run (at the
\* call for timer, at the coroutine's first run for async_timer), never at
\* decoration.  A completed call whose body started with the flag true has
\* called logger.info once, after func returned, and that call wrote one line
\* per handler of the "wren-ai-service" logger when its level admits INFO and
\* none otherwise; a call whose body started with the flag false, a failed
\* call and a call that has not finished have logged nothing
C5_FlagReadWhenBodyStarts ==
    [][\A s \in Slots :
          /\ TimerCallEnds(s) =>
                LET c == calls'[s]
                IN  /\ (c.outcome.kind = "returned" /\ c.flagAtStart)
                          => /\ c.events = <<"invoke", "return", "log">>
                             /\ c.lines = ExpectedInfoLines
                    /\ (c.outcome.kind = "raised" \/ ~c.flagAtStart)
                          => (Count(c.events, "log") = 0 /\ c.lines = 0)
          /\ (calls'[s].pc \in {"created", "awaiting"})
                => (Count(calls'[s].events, "log") = 0 /\ calls'[s].lines = 0)
      ]_vars

C5_Witness ==
    \E s \in Slots :
        /\ Done(s)
        /\ calls[s].deco = "async_timer"
        /\ calls[s].outcome.kind = "returned"
        /\ ~calls[s].flagAtCall
        /\ calls[s].flagAtStart
        /\ ~calls[s].decoratedWith
        /\ ~enable_timer
        /\ Count(calls[s].events, "log") = 1
        /\ calls[s].lines = 2
        /\ Len(setupCalls) = 3

C10_FailuresPassThrough ==
    \A s \in Slots :
        calls[s].pc # "idle" =>
            LET c == calls[s]
            IN  /\ (c.pc = "done" /\ c.funcOutcome.kind = "raise") =>
                      /\ c.outcome = [kind |-> "raised", error |-> c.funcOutcome.error]
                      /\ Count(c.events, "log") = 0
                      /\ Count(c.events, "update") = 0
                      /\ c.lines = 0
                      /\ c.pushed = <<>>
                /\ c.pc \in {"created", "awaiting"} =>
                      /\ Count(c.events, "log") = 0
                      /\ c.lines = 0
                      /\ c.pushed = <<>>
                /\ (c.pc = "done" /\ c.outcome.kind = "returned"
                        /\ c.deco = "trace_metadata") =>
                      /\ c.events = <<"invoke", "return", "update">>
                      /\ Len(c.pushed) = 1

C10_Witness ==
    \E s \in Slots :
        /\ Done(s)
        /\ calls[s].deco = "trace_metadata"
        /\ calls[s].funcOutcome = Cancelled
        /\ calls[s].outcome = [kind |-> "raised", error |-> "CancelledError"]
        /\ calls[s].events = <<"invoke", "raise">>

\* C8 as stated: a trace_metadata call whose wrapped callable returned, made
\* with a request in place and without a service_metadata keyword or with a
\* service_metadata that has no pipes_metadata entry, completes, returns the
\* result and pushes metadata built from the result's metadata and the
\* request's two identifiers only
C8_PipesMetadataDefaultsToEmpty ==
    \A s \in Slots :
        (/\ Done(s)
         /\ calls[s].deco = "trace_metadata"
         /\ calls[s].funcOutcome.kind = "return"
         /\ calls[s].funcOutcome.value # ResMetaNone
         /\ Len(calls[s].args) >= 2
         /\ \/ "service_metadata" \notin DOMAIN calls[s].kwargs
            \/ "pipes_metadata" \notin DOMAIN calls[s].kwargs.service_metadata.d)
        => LET c == calls[s]
               resMeta == ResultMetadata(c.funcOutcome.value)
           IN  /\ c.outcome = [kind |-> "returned", value |-> c.funcOutcome.value]
               /\ Len(c.pushed) = 1
               /\ c.pushed[1].metadata =
                     [k \in DOMAIN resMeta \cup {"mdl_hash", "project_id"} |->
                        IF k \in {"mdl_hash", "project_id"}
                        THEN AttrOrNone(c.args[2], k)
                        ELSE resMeta[k]]

====
